---- MODULE Spec2Model ----
(***************************************************************************)
(* A model of the policy-analysis pipeline of popu-agent:                  *)
(*   - run_policy_analysis (main.py), the asynchronous generator that runs  *)
(*     the Analyst, Critic, Lobbyist and Synthesizer stages in sequence and *)
(*     yields 4-tuples of slot texts;                                       *)
(*   - fetch_policy_data (tools.py), the Tavily search tool with its retry  *)
(*     loop, and the retry options handed to the Gemini model;              *)
(*   - generate_markdown_report (main.py), the report template;            *)
(*   - two runs of run_policy_analysis interleaved at their await points,  *)
(*     each with the session service it constructs.                        *)
(*                                                                         *)
(* Python strings are modelled as sequences of chunks (a chunk is one      *)
(* TLA+ string): a literal of the program is one chunk, a character that   *)
(* the program inspects (whitespace, digits of an error text) is a chunk of *)
(* its own.  Concatenation is \o, the empty string is << >>.                *)
(***************************************************************************)
EXTENDS Integers, Sequences, FiniteSets, TLC

VARIABLES
    \* ---- run_policy_analysis ----
    pc,                 \* position of the generator
    stage,              \* index of the stage whose try-block is current (0: none)
    ret,                \* source line of the return taken (0: still running)
    status,             \* stage -> Pending / Running / Succeeded / Failed
    topic, google_key, tavily_key,          \* arguments
    cfg_google, cfg_tavily,                 \* config.GOOGLE_API_KEY, config.TAVILY_API_KEY
    active_google_key, active_tavily_key,
    environ,            \* os.environ["GOOGLE_API_KEY"]
    analysis_text, critique_text, lobbyist_text, summary_text,
    n_events,           \* events consumed from the current run_async stream
    sessions,           \* session ids held by session_service
    calls,              \* generation calls started, in order
    snapshots,          \* tuples yielded so far, in order
    \* ---- retried calls ----
    callee,             \* "idle", "fetch_policy_data" or "generate_content"
    rpc,                \* position inside the retried call
    attempt,            \* loop index of the current attempt
    history,            \* outcome of the upstream at each attempt made
    sleeps,             \* backoff delays slept, in order
    result,             \* how the call ended
    \* ---- generate_markdown_report ----
    gpc,                \* "idle", "inputs" (arguments chosen) or "written"
    inputs,             \* the arguments of two calls of generate_markdown_report
    docs,               \* the md_content each call wrote
    \* ---- two concurrent runs ----
    cpc,                \* run -> position of that run's generator
    cstage,             \* run -> index of its current stage
    cn,                 \* run -> events consumed from its current stream
    store,              \* session service -> session id -> events of the session
    \* ---- the event loop of one stage ----
    xstream,            \* the events one run_async stream delivers
    xseen,              \* events of it consumed so far
    xtext,              \* the stage's text variable
    \* ---- the UI (one browser session) ----
    upc,                \* "idle", "running" (generator being iterated) or "ended"
    uruns,              \* clicks of analyze_btn so far
    uyields,            \* tuples the current run has yielded
    topic_input,        \* value of the topic textbox
    outputs,            \* values of the four Markdown outputs
    states,             \* topic_state and the four result states (<< >>: None)
    download_btn,       \* interactive flag of the download button
    report,             \* md_content of the last report generated (<< >>: none)
    ended,              \* last tuple of each run that has ended, in order
    \* ---- two runs sharing the process ----
    spc,                \* run -> "setup", "stage", "sleeping" or "returned"
    sstage,             \* run -> index of its current stage
    sn,                 \* run -> generation requests of its current stage
    ssleeps,            \* run -> backoff sleeps of its tool calls so far
    senv,               \* os.environ["GOOGLE_API_KEY"], one per process
    sclient,            \* run -> key held by the API client of its model ("": no client yet)
    scalls              \* generation requests made: [run, stage, key]

pipeVars == <<pc, stage, ret, status, topic, google_key, tavily_key, cfg_google,
              cfg_tavily, active_google_key, active_tavily_key, environ,
              analysis_text, critique_text, lobbyist_text, summary_text,
              n_events, sessions, calls, snapshots>>
retryVars == <<callee, rpc, attempt, history, sleeps, result>>
reportVars == <<gpc, inputs, docs>>
concVars == <<cpc, cstage, cn, store>>
extractVars == <<xstream, xseen, xtext>>
uiVars == <<upc, uruns, uyields, topic_input, outputs, states, download_btn, report, ended>>
sharedVars == <<spc, sstage, sn, ssleeps, senv, sclient, scalls>>
vars == <<pipeVars, retryVars, reportVars, concVars, extractVars, uiVars, sharedVars>>

----------------------------------------------------------------------------
(* Bounds *)
MaxEvents == 2      \* events delivered by one run_async stream
MaxRuns == 2        \* clicks of the analyze button in one browser session
MaxYields == 2      \* tuples one run yields to the UI
MaxSleeps == 1      \* backoff sleeps of the search tool in one run

(* Stages *)
Analyst == 1
Critic == 2
Lobbyist == 3
Synthesizer == 4
Stages == 1..4

----------------------------------------------------------------------------
(* String helpers *)
Whitespace == {" ", "\n", "\t"}

\* str.strip() of s is empty
StripIsEmpty(s) == \A i \in 1..Len(s) : s[i] \in Whitespace

RECURSIVE Join(_, _)
\* sep.join(strs)
Join(strs, sep) ==
    IF strs = << >> THEN << >>
    ELSE IF Len(strs) = 1 THEN strs[1]
    ELSE strs[1] \o sep \o Join(Tail(strs), sep)

\* t occurs in p as a contiguous run
Embeds(p, t) ==
    \/ t = << >>
    \/ \E i \in 1..(Len(p) - Len(t) + 1) : SubSeq(p, i, i + Len(t) - 1) = t

----------------------------------------------------------------------------
(* Inputs *)
Topics == { <<"UBI">> }
KeyInputs == {"", "user_key"}
GoogleDefaults == {"", "env_google"}
TavilyDefaults == {"", "env_tavily"}
Exceptions == { <<"boom">> }

\* a part of an event's content: text is << >> where the part has none
TextPart(t) == [kind |-> "text", text |-> t]
FunctionCallPart == [kind |-> "function_call", text |-> << >>]
ThoughtPart == [kind |-> "thought_signature", text |-> << >>]

\* event.content.parts of the events a stream may deliver (<< >>: no content)
Contents == { << >>,
              <<TextPart(<<"a">>)>>,
              <<TextPart(<<" ">>)>>,
              <<FunctionCallPart>>,
              <<TextPart(<<"a">>), TextPart(<<"b">>)>>,
              <<ThoughtPart, TextPart(<<"b">>)>>,
              <<TextPart(<< >>), FunctionCallPart>> }
Events == [final : BOOLEAN, parts : Contents]

----------------------------------------------------------------------------
(* run_policy_analysis: pure pieces *)

\* key if key else default
ResolveKey(key, default) == IF key # "" THEN key ELSE default

\* mutant of KeysMissing: "and" in place of "or"
KeysMissing_And(g, t) == g = "" /\ t = ""

\* not active_google_key or not active_tavily_key
KeysMissing(g, t) == g = "" \/ t = ""

AuthErr == <<"Error: Missing API Keys. Please provide both Google API Key and Tavily API Key.">>
SetupErr(e) == <<"Setup Error: ">> \o e
StartingMsg(t) == <<"Starting analysis for: ">> \o t \o <<"...\nCheck terminal for live logs.">>
AnalystMarker == <<">>> Analyst: Searching for data...\n">>

StageName(k) ==
    CASE k = 1 -> "Analyst" [] k = 2 -> "Critic" [] k = 3 -> "Lobbyist" [] k = 4 -> "Synthesizer"

\* mutant of SessionId: the Critic block reuses the Analyst's session id
SessionId_Reused(k) ==
    CASE k = 1 -> "sess_analyst" [] k = 2 -> "sess_analyst"
      [] k = 3 -> "sess_lobbyist" [] k = 4 -> "sess_summary"

SessionId(k) ==
    CASE k = 1 -> "sess_analyst" [] k = 2 -> "sess_critic"
      [] k = 3 -> "sess_lobbyist" [] k = 4 -> "sess_summary"

\* tools=... of the four LlmAgent definitions
AgentTools(k) ==
    CASE k = 1 -> <<"tavily_search_tool">> [] k = 2 -> <<"tavily_search_tool">>
      [] k = 3 -> <<"google_search">> [] k = 4 -> <<"google_search">>

\* mutant of ErrorMsg: the Critic's except block keeps the Analyst's label
ErrorMsg_Copied(k, e) ==
    CASE k = 1 -> <<"Analyst Failed: ">> \o e
      [] k = 2 -> <<"Analyst Failed: ">> \o e
      [] k = 3 -> <<"Lobbyist Failed: ">> \o e
      [] k = 4 -> <<"Summary Failed: ">> \o e

\* error_msg of the except block of stage k
ErrorMsg(k, e) ==
    CASE k = 1 -> <<"Analyst Failed: ">> \o e
      [] k = 2 -> <<"Critic Failed: ">> \o e
      [] k = 3 -> <<"Lobbyist Failed: ">> \o e
      [] k = 4 -> <<"Summary Failed: ">> \o e

\* status_log set after stage k
StatusLog(k) ==
    CASE k = 1 -> <<">>> Analyst finished. Starting Critic...\n">>
      [] k = 2 -> <<">>> Critic finished. Starting Lobbyist...\n">>
      [] k = 3 -> <<">>> Lobbyist finished. Synthesizing Final Report...\n">>

\* mutant of Prompt: the Lobbyist prompt leaves the analysis out
Prompt_NoAnalysis(k, t, a, c, l) ==
    CASE k = 1 -> <<"Analyze with data (be concise): '">> \o t \o <<"'">>
      [] k = 2 -> <<"Critique this analysis ruthlessly: \n">> \o a
      [] k = 3 -> <<"\n        Context Analysis: ">>
                  \o <<"\n        Context Critique: ">> \o c
                  \o <<"\n        \n        Task: Propose 3 Future Directives and lobby for specific groups using new data.\n        ">>
      [] k = 4 -> <<"\n        Summarize these into a TL;DR Executive Report:\n        \n        [ANALYSIS]\n        ">> \o a
                  \o <<"\n        \n        [CRITIQUE]\n        ">> \o c
                  \o <<"\n        \n        [LOBBYIST PROPOSALS]\n        ">> \o l
                  \o <<"\n        ">>

\* the user message of stage k, built from the texts a, c, l produced so far
Prompt(k, t, a, c, l) ==
    CASE k = 1 -> <<"Analyze with data (be concise): '">> \o t \o <<"'">>
      [] k = 2 -> <<"Critique this analysis ruthlessly: \n">> \o a
      [] k = 3 -> <<"\n        Context Analysis: ">> \o a
                  \o <<"\n        Context Critique: ">> \o c
                  \o <<"\n        \n        Task: Propose 3 Future Directives and lobby for specific groups using new data.\n        ">>
      [] k = 4 -> <<"\n        Summarize these into a TL;DR Executive Report:\n        \n        [ANALYSIS]\n        ">> \o a
                  \o <<"\n        \n        [CRITIQUE]\n        ">> \o c
                  \o <<"\n        \n        [LOBBYIST PROPOSALS]\n        ">> \o l
                  \o <<"\n        ">>

\* text_parts: the parts with a non-empty text, in order
TextParts(parts) ==
    LET kept == SelectSeq(parts, LAMBDA p : p.text # << >>)
    IN  [i \in 1..Len(kept) |-> kept[i].text]

\* mutant of ExtractText: the is_final_response() test is dropped
ExtractText_AnyEvent(event, old) ==
    IF event.parts # << >>
    THEN IF TextParts(event.parts) # << >>
         THEN Join(TextParts(event.parts), <<"\n">>)
         ELSE << >>
    ELSE old

\* the text variable after one event of the stream
ExtractText(event, old) ==
    IF event.final /\ event.parts # << >>
    THEN IF TextParts(event.parts) # << >>
         THEN Join(TextParts(event.parts), <<"\n">>)
         ELSE << >>
    ELSE old

\* mutant of FailureTuple: the slot after the failed stage keeps a progress marker
FailureTuple_Marker(k, msg, a, c, l) ==
    CASE k = 1 -> <<msg, <<">>> Analyst finished. Starting Critic...\n">>, << >>, << >>>>
      [] k = 2 -> <<a, msg, << >>, << >>>>
      [] k = 3 -> <<a, c, msg, << >>>>
      [] k = 4 -> <<a, c, l, msg>>

\* mutant of FailureTuple: the Synthesizer's except block drops the Lobbyist text
FailureTuple_NoLobbyist(k, msg, a, c, l) ==
    CASE k = 1 -> <<msg, << >>, << >>, << >>>>
      [] k = 2 -> <<a, msg, << >>, << >>>>
      [] k = 3 -> <<a, c, msg, << >>>>
      [] k = 4 -> <<a, c, << >>, msg>>

\* mutant of FailureTuple: the Analyst's except block fills every slot with the error
FailureTuple_AllSlots(k, msg, a, c, l) ==
    CASE k = 1 -> <<msg, msg, msg, msg>>
      [] k = 2 -> <<a, msg, << >>, << >>>>
      [] k = 3 -> <<a, c, msg, << >>>>
      [] k = 4 -> <<a, c, l, msg>>

\* mutant of FailureTuple: the Critic's except block yields the Analyst's tuple shape
FailureTuple_Copied(k, msg, a, c, l) ==
    CASE k = 1 -> <<msg, << >>, << >>, << >>>>
      [] k = 2 -> <<msg, << >>, << >>, << >>>>
      [] k = 3 -> <<a, c, msg, << >>>>
      [] k = 4 -> <<a, c, l, msg>>

\* the tuple yielded by the except block of stage k
FailureTuple(k, msg, a, c, l) ==
    CASE k = 1 -> <<msg, << >>, << >>, << >>>>
      [] k = 2 -> <<a, msg, << >>, << >>>>
      [] k = 3 -> <<a, c, msg, << >>>>
      [] k = 4 -> <<a, c, l, msg>>

\* mutant of SuccessTuple: the tuple after the Critic still shows the Critic's marker
SuccessTuple_StaleMarker(k, a, c, l, s) ==
    CASE k = 1 -> <<a, StatusLog(1), << >>, << >>>>
      [] k = 2 -> <<a, StatusLog(1), StatusLog(2), << >>>>
      [] k = 3 -> <<a, c, l, StatusLog(3)>>
      [] k = 4 -> <<a, c, l, s>>

\* mutant of SuccessTuple: the tuple after the Critic blanks the analysis
SuccessTuple_Blanked(k, a, c, l, s) ==
    CASE k = 1 -> <<a, StatusLog(1), << >>, << >>>>
      [] k = 2 -> << << >>, c, StatusLog(2), << >>>>
      [] k = 3 -> <<a, c, l, StatusLog(3)>>
      [] k = 4 -> <<a, c, l, s>>

\* the tuple yielded after stage k completed
SuccessTuple(k, a, c, l, s) ==
    CASE k = 1 -> <<a, StatusLog(1), << >>, << >>>>
      [] k = 2 -> <<a, c, StatusLog(2), << >>>>
      [] k = 3 -> <<a, c, l, StatusLog(3)>>
      [] k = 4 -> <<a, c, l, s>>

FailureLine(k) == CASE k = 1 -> 171 [] k = 2 -> 211 [] k = 3 -> 257 [] k = 4 -> 310
SuccessLine(k) == CASE k = 1 -> 175 [] k = 2 -> 215 [] k = 3 -> 261 [] k = 4 -> 315

Text(k) ==
    CASE k = 1 -> analysis_text [] k = 2 -> critique_text
      [] k = 3 -> lobbyist_text [] k = 4 -> summary_text

Yield(line, tuple) == snapshots' = Append(snapshots, [line |-> line, slots |-> tuple])

----------------------------------------------------------------------------
(* Initial states *)

RetryIdle ==
    /\ callee = "idle" /\ rpc = "idle" /\ attempt = 0
    /\ history = << >> /\ sleeps = << >> /\ result = [kind |-> "none"]

\* generate_markdown_report has not been called
ReportIdle == gpc = "idle" /\ inputs = << >> /\ docs = << >>

\* no second run is in progress
ConcIdle ==
    /\ cpc = << >> /\ cstage = << >> /\ cn = << >> /\ store = << >>

\* no stream is being read on its own
ExtractIdle == xstream = << >> /\ xseen = 0 /\ xtext = << >>

\* no two runs share the process
SharedIdle ==
    /\ spc = << >> /\ sstage = << >> /\ sn = << >> /\ ssleeps = << >>
    /\ senv = "" /\ sclient = << >> /\ scalls = {}

\* no page is open
UIIdle ==
    /\ upc = "closed" /\ uruns = 0 /\ uyields = 0 /\ topic_input = << >>
    /\ outputs = << >> /\ states = << >> /\ download_btn = FALSE
    /\ report = << >> /\ ended = << >>

Init ==
    /\ pc = "start" /\ stage = 0 /\ ret = 0
    /\ status = [k \in Stages |-> "Pending"]
    /\ topic \in Topics
    /\ google_key \in KeyInputs /\ tavily_key \in KeyInputs
    /\ cfg_google \in GoogleDefaults /\ cfg_tavily \in TavilyDefaults
    /\ active_google_key = "" /\ active_tavily_key = ""
    /\ environ = cfg_google
    /\ analysis_text = << >> /\ critique_text = << >>
    /\ lobbyist_text = << >> /\ summary_text = << >>
    /\ n_events = 0 /\ sessions = {} /\ calls = << >> /\ snapshots = << >>
    /\ RetryIdle /\ ReportIdle /\ ConcIdle /\ ExtractIdle /\ UIIdle /\ SharedIdle

----------------------------------------------------------------------------
(* run_policy_analysis: actions *)

\* mutant of AuthCheck: os.environ is written before the keys are checked
AuthCheck_EnvFirst ==
    /\ pc = "start"
    /\ active_google_key' = ResolveKey(google_key, cfg_google)
    /\ active_tavily_key' = ResolveKey(tavily_key, cfg_tavily)
    /\ environ' = active_google_key'
    /\ IF KeysMissing(active_google_key', active_tavily_key')
       THEN /\ Yield(27, <<AuthErr, AuthErr, AuthErr, AuthErr>>)
            /\ pc' = "returned" /\ ret' = 28
       ELSE /\ Yield(30, <<StartingMsg(topic), << >>, << >>, << >>>>)
            /\ pc' = "setup" /\ ret' = ret
    /\ UNCHANGED <<stage, status, topic, google_key, tavily_key, cfg_google, cfg_tavily,
                   analysis_text, critique_text, lobbyist_text, summary_text,
                   n_events, sessions, calls>>
    /\ UNCHANGED <<retryVars, reportVars, concVars, extractVars, uiVars, sharedVars>>

\* lines 21-30: resolve the keys, check them, first yield
AuthCheck ==
    /\ pc = "start"
    /\ active_google_key' = ResolveKey(google_key, cfg_google)
    /\ active_tavily_key' = ResolveKey(tavily_key, cfg_tavily)
    /\ IF KeysMissing(active_google_key', active_tavily_key')
       THEN /\ Yield(27, <<AuthErr, AuthErr, AuthErr, AuthErr>>)
            /\ pc' = "returned" /\ ret' = 28
       ELSE /\ Yield(30, <<StartingMsg(topic), << >>, << >>, << >>>>)
            /\ pc' = "setup" /\ ret' = ret
    /\ UNCHANGED <<stage, status, topic, google_key, tavily_key, cfg_google, cfg_tavily,
                   environ, analysis_text, critique_text, lobbyist_text, summary_text,
                   n_events, sessions, calls>>
    /\ UNCHANGED <<retryVars, reportVars, concVars, extractVars, uiVars, sharedVars>>

\* mutant of Setup: one more progress tuple is yielded before the Analyst marker
Setup_ExtraYield ==
    /\ pc = "setup"
    /\ environ' = active_google_key
    /\ snapshots' = Append(Append(snapshots,
                          [line |-> 137, slots |-> <<AnalystMarker, << >>, << >>, << >>>>]),
                          [line |-> 137, slots |-> <<AnalystMarker, << >>, << >>, << >>>>])
    /\ analysis_text' = << >>
    /\ sessions' = {}
    /\ stage' = Analyst
    /\ pc' = "create_session"
    /\ UNCHANGED <<ret, status, topic, google_key, tavily_key, cfg_google, cfg_tavily,
                   active_google_key, active_tavily_key, critique_text, lobbyist_text,
                   summary_text, n_events, calls>>
    /\ UNCHANGED <<retryVars, reportVars, concVars, extractVars, uiVars, sharedVars>>

\* mutant of Setup: the four sessions are created eagerly
Setup_EagerSessions ==
    /\ pc = "setup"
    /\ environ' = active_google_key
    /\ Yield(137, <<AnalystMarker, << >>, << >>, << >>>>)
    /\ analysis_text' = << >>
    /\ sessions' = {"sess_analyst", "sess_critic", "sess_lobbyist", "sess_summary"}
    /\ stage' = Analyst
    /\ pc' = "create_session"
    /\ UNCHANGED <<ret, status, topic, google_key, tavily_key, cfg_google, cfg_tavily,
                   active_google_key, active_tavily_key, critique_text, lobbyist_text,
                   summary_text, n_events, calls>>
    /\ UNCHANGED <<retryVars, reportVars, concVars, extractVars, uiVars, sharedVars>>

\* lines 33-52 without exception, then lines 61-138: agents, session service,
\* the Analyst marker is yielded and analysis_text is initialised
Setup ==
    /\ pc = "setup"
    /\ environ' = active_google_key
    /\ Yield(137, <<AnalystMarker, << >>, << >>, << >>>>)
    /\ analysis_text' = << >>
    /\ sessions' = {}
    /\ stage' = Analyst
    /\ pc' = "create_session"
    /\ UNCHANGED <<ret, status, topic, google_key, tavily_key, cfg_google, cfg_tavily,
                   active_google_key, active_tavily_key, critique_text, lobbyist_text,
                   summary_text, n_events, calls>>
    /\ UNCHANGED <<retryVars, reportVars, concVars, extractVars, uiVars, sharedVars>>

\* lines 53-57: an exception inside the setup try-block
SetupRaise ==
    /\ pc = "setup"
    /\ \E e \in Exceptions, written \in BOOLEAN :
          /\ environ' = IF written THEN active_google_key ELSE environ
          /\ Yield(56, <<SetupErr(e), SetupErr(e), SetupErr(e), SetupErr(e)>>)
    /\ pc' = "returned" /\ ret' = 57
    /\ UNCHANGED <<stage, status, topic, google_key, tavily_key, cfg_google, cfg_tavily,
                   active_google_key, active_tavily_key, analysis_text, critique_text,
                   lobbyist_text, summary_text, n_events, sessions, calls>>
    /\ UNCHANGED <<retryVars, reportVars, concVars, extractVars, uiVars, sharedVars>>

\* await session_service.create_session(..., session_id=SessionId(stage))
CreateSession ==
    /\ pc = "create_session"
    /\ sessions' = sessions \cup {SessionId(stage)}
    /\ status' = [status EXCEPT ![stage] = "Running"]
    /\ pc' = "run_async"
    /\ UNCHANGED <<stage, ret, topic, google_key, tavily_key, cfg_google, cfg_tavily,
                   active_google_key, active_tavily_key, environ, analysis_text,
                   critique_text, lobbyist_text, summary_text, n_events, calls, snapshots>>
    /\ UNCHANGED <<retryVars, reportVars, concVars, extractVars, uiVars, sharedVars>>

\* Runner(...), the user message, and the start of runner.run_async(...)
RunAsync ==
    /\ pc = "run_async"
    /\ calls' = Append(calls, [stage |-> stage,
                               agent |-> StageName(stage),
                               tools |-> AgentTools(stage),
                               session_id |-> SessionId(stage),
                               prompt |-> Prompt(stage, topic, analysis_text, critique_text, lobbyist_text),
                               key |-> environ])
    /\ n_events' = 0
    /\ pc' = "events"
    /\ UNCHANGED <<stage, ret, status, topic, google_key, tavily_key, cfg_google, cfg_tavily,
                   active_google_key, active_tavily_key, environ, analysis_text,
                   critique_text, lobbyist_text, summary_text, sessions, snapshots>>
    /\ UNCHANGED <<retryVars, reportVars, concVars, extractVars, uiVars, sharedVars>>

\* one iteration of "async for event in runner.run_async(...)"
Event ==
    /\ pc = "events"
    /\ n_events < MaxEvents
    /\ \E event \in Events :
          /\ analysis_text' = IF stage = 1 THEN ExtractText(event, analysis_text) ELSE analysis_text
          /\ critique_text' = IF stage = 2 THEN ExtractText(event, critique_text) ELSE critique_text
          /\ lobbyist_text' = IF stage = 3 THEN ExtractText(event, lobbyist_text) ELSE lobbyist_text
          /\ summary_text' = IF stage = 4 THEN ExtractText(event, summary_text) ELSE summary_text
    /\ n_events' = n_events + 1
    /\ UNCHANGED <<pc, stage, ret, status, topic, google_key, tavily_key, cfg_google,
                   cfg_tavily, active_google_key, active_tavily_key, environ, sessions,
                   calls, snapshots>>
    /\ UNCHANGED <<retryVars, reportVars, concVars, extractVars, uiVars, sharedVars>>

\* mutant of StageComplete: the Critic block is skipped after the Analyst
StageComplete_Skip ==
    /\ pc = "events"
    /\ status' = [status EXCEPT ![stage] = "Succeeded"]
    /\ Yield(SuccessLine(stage),
             SuccessTuple(stage, analysis_text, critique_text, lobbyist_text, summary_text))
    /\ IF stage = Synthesizer
       THEN /\ pc' = "returned" /\ ret' = 315 /\ stage' = stage
       ELSE /\ pc' = "create_session" /\ ret' = ret
            /\ stage' = IF stage = Analyst THEN Lobbyist ELSE stage + 1
    /\ n_events' = 0
    /\ UNCHANGED <<topic, google_key, tavily_key, cfg_google, cfg_tavily,
                   active_google_key, active_tavily_key, environ, analysis_text,
                   critique_text, lobbyist_text, summary_text, sessions, calls>>
    /\ UNCHANGED <<retryVars, reportVars, concVars, extractVars, uiVars, sharedVars>>

\* the stream ends: the empty-text check (a print only), the yield after the
\* stage, and the initialisation of the next stage's text
StageComplete ==
    /\ pc = "events"
    /\ status' = [status EXCEPT ![stage] = "Succeeded"]
    /\ Yield(SuccessLine(stage),
             SuccessTuple(stage, analysis_text, critique_text, lobbyist_text, summary_text))
    /\ IF stage = Synthesizer
       THEN /\ pc' = "returned" /\ ret' = 315 /\ stage' = stage
       ELSE /\ pc' = "create_session" /\ ret' = ret /\ stage' = stage + 1
    /\ n_events' = 0
    /\ UNCHANGED <<topic, google_key, tavily_key, cfg_google, cfg_tavily,
                   active_google_key, active_tavily_key, environ, analysis_text,
                   critique_text, lobbyist_text, summary_text, sessions, calls>>
    /\ UNCHANGED <<retryVars, reportVars, concVars, extractVars, uiVars, sharedVars>>

\* mutant of StageRaise: the except block has no return and falls through
StageRaise_FallThrough ==
    /\ pc \in {"create_session", "run_async", "events"}
    /\ \E e \in Exceptions :
          Yield(FailureLine(stage),
                FailureTuple(stage, ErrorMsg(stage, e), analysis_text, critique_text, lobbyist_text))
    /\ status' = [status EXCEPT ![stage] = "Failed"]
    /\ IF stage = Synthesizer
       THEN /\ pc' = "returned" /\ ret' = FailureLine(stage) + 1 /\ stage' = stage
       ELSE /\ pc' = "create_session" /\ ret' = ret /\ stage' = stage + 1
    /\ UNCHANGED <<topic, google_key, tavily_key, cfg_google, cfg_tavily,
                   active_google_key, active_tavily_key, environ, analysis_text,
                   critique_text, lobbyist_text, summary_text, n_events, sessions, calls>>
    /\ UNCHANGED <<retryVars, reportVars, concVars, extractVars, uiVars, sharedVars>>

\* an exception anywhere in the try-block of the current stage
StageRaise ==
    /\ pc \in {"create_session", "run_async", "events"}
    /\ \E e \in Exceptions :
          Yield(FailureLine(stage),
                FailureTuple(stage, ErrorMsg(stage, e), analysis_text, critique_text, lobbyist_text))
    /\ status' = [status EXCEPT ![stage] = "Failed"]
    /\ pc' = "returned" /\ ret' = FailureLine(stage) + 1
    /\ UNCHANGED <<stage, topic, google_key, tavily_key, cfg_google, cfg_tavily,
                   active_google_key, active_tavily_key, environ, analysis_text,
                   critique_text, lobbyist_text, summary_text, n_events, sessions, calls>>
    /\ UNCHANGED <<retryVars, reportVars, concVars, extractVars, uiVars, sharedVars>>

Next ==
    \/ AuthCheck
    \/ Setup
    \/ SetupRaise
    \/ CreateSession
    \/ RunAsync
    \/ Event
    \/ StageComplete
    \/ StageRaise

Spec == Init /\ [][Next]_vars

\* The consumer iterates the generator to its end and every awaited call
\* returns or raises: no step of the run is postponed for ever.
LiveSpec == Init /\ [][Next]_vars /\ WF_vars(Next)

----------------------------------------------------------------------------
(* fetch_policy_data (tools.py) and the retry options of the Gemini model *)

max_retries == 3            \* tools.py: max_retries = 3
attempts == 5               \* main.py: HttpRetryOptions(attempts=5)
exp_base == 7               \* main.py: HttpRetryOptions(exp_base=7)
initial_delay == 1          \* main.py: HttpRetryOptions(initial_delay=1)
http_status_codes == {429, 500, 503, 504}

\* an exception of the upstream: its HTTP status (0: none) and str(e),
\* one chunk per character
Err(code, str) == [code |-> code, str |-> str]
UpstreamErrors ==
    { Err(503, <<"5", "0", "3">>),
      Err(0,   <<"O", "v", "e", "r", "l", "o", "a", "d">>),
      Err(429, <<"4", "2", "9">>),
      Err(504, <<"5", "0", "4">>),
      Err(0,   <<"u", "n", "a", "v", "a", "i", "l", "a", "b", "l", "e">>),
      Err(500, <<"5", "0", "0">>),
      Err(401, <<"4", "0", "1">>) }

UpperChars == <<"A", "B", "C", "D", "E", "F", "G", "H", "I", "J", "K", "L", "M",
                "N", "O", "P", "Q", "R", "S", "T", "U", "V", "W", "X", "Y", "Z">>
LowerChars == <<"a", "b", "c", "d", "e", "f", "g", "h", "i", "j", "k", "l", "m",
                "n", "o", "p", "q", "r", "s", "t", "u", "v", "w", "x", "y", "z">>

\* str.lower()
Lower(s) ==
    [i \in 1..Len(s) |->
        IF \E j \in 1..26 : UpperChars[j] = s[i]
        THEN LowerChars[CHOOSE j \in 1..26 : UpperChars[j] = s[i]]
        ELSE s[i]]

\* mutant of IsOverload: the comparison is case-sensitive
IsOverload_CaseSensitive(error_str) ==
    \/ Embeds(error_str, <<"5", "0", "3">>)
    \/ Embeds(error_str, <<"o", "v", "e", "r", "l", "o", "a", "d">>)

\* "503" in error_str or "overload" in error_str.lower()
IsOverload(error_str) ==
    \/ Embeds(error_str, <<"5", "0", "3">>)
    \/ Embeds(Lower(error_str), <<"o", "v", "e", "r", "l", "o", "a", "d">>)

\* the error is one the Gemini retry options name
IsRetriedStatus(e) == e.code \in http_status_codes

\* mutant of WaitTime: wait_time = 2 * attempt
WaitTime_Product(a) == 2 * a

\* wait_time = 2 ** attempt
WaitTime(a) == 2 ^ a

\* nominal delay of the Gemini retry options before attempt a + 1
RetryDelay(a) == initial_delay * (exp_base ^ a)

\* error_msg = f"Error during search: {str(e)}"
SearchErrorMsg(e) == <<"Error during search: ">> \o e.str

\* the search results the Tavily client may hand back
Result(title, url, has_raw, raw, content) ==
    [title |-> title, url |-> url, has_raw |-> has_raw, raw_content |-> raw, content |-> content]
R1 == Result(<<"t1">>, <<"u1">>, TRUE, <<"raw1">>, <<"c1">>)
R2 == Result(<<"t2">>, <<"u2">>, FALSE, << >>, <<"c2">>)
Responses == { [has_results |-> FALSE, results |-> << >>],
               [has_results |-> TRUE, results |-> << >>],
               [has_results |-> TRUE, results |-> <<R1>>],
               [has_results |-> TRUE, results |-> <<R1, R2>>] }

\* result.get('raw_content', result.get('content', ''))
ResultContent(r) == IF r.has_raw THEN r.raw_content ELSE r.content

\* lines 42-49: the text returned for a response
ResultText(response) ==
    LET context == IF response.has_results
                   THEN [i \in 1..Len(response.results) |->
                            <<"Source: ">> \o response.results[i].title
                            \o <<"\nURL: ">> \o response.results[i].url
                            \o <<"\nData: ">> \o ResultContent(response.results[i])]
                   ELSE << >>
    IN  IF context # << >> THEN Join(context, <<"\n\n">>) ELSE <<"No results found.">>

InitRetry ==
    /\ pc = "start" /\ stage = 0 /\ ret = 0
    /\ status = [k \in Stages |-> "Pending"]
    /\ topic = <<"UBI">>
    /\ google_key = "" /\ tavily_key = "user_key"
    /\ cfg_google = "env_google" /\ cfg_tavily = ""
    /\ active_google_key = "" /\ active_tavily_key = ""
    /\ environ = cfg_google
    /\ analysis_text = << >> /\ critique_text = << >>
    /\ lobbyist_text = << >> /\ summary_text = << >>
    /\ n_events = 0 /\ sessions = {} /\ calls = << >> /\ snapshots = << >>
    /\ RetryIdle /\ ReportIdle /\ ConcIdle /\ ExtractIdle /\ UIIdle /\ SharedIdle

\* the model calls the tool: fetch_policy_data(query) is entered
FetchCall ==
    /\ callee = "idle"
    /\ callee' = "fetch_policy_data"
    /\ rpc' = "attempt" /\ attempt' = 0
    /\ UNCHANGED <<history, sleeps, result>>
    /\ UNCHANGED <<pipeVars, reportVars, concVars, extractVars, uiVars, sharedVars>>

\* lines 36-51: tavily_client.search returns, the results are formatted
FetchReturn ==
    /\ callee = "fetch_policy_data" /\ rpc = "attempt"
    /\ \E response \in Responses :
          /\ history' = Append(history, [ok |-> TRUE, err |-> Err(0, << >>)])
          /\ result' = [kind |-> "returned", value |-> ResultText(response)]
    /\ rpc' = "done"
    /\ UNCHANGED <<callee, attempt, sleeps>>
    /\ UNCHANGED <<pipeVars, reportVars, concVars, extractVars, uiVars, sharedVars>>

\* mutant of FetchExcept: an overload error is retried whatever the attempt
FetchExcept_NoGuard ==
    /\ callee = "fetch_policy_data" /\ rpc = "attempt"
    /\ \E e \in UpstreamErrors :
          /\ history' = Append(history, [ok |-> FALSE, err |-> e])
          /\ IF IsOverload(e.str)
             THEN /\ rpc' = "sleep"
                  /\ result' = result
             ELSE /\ rpc' = "done"
                  /\ result' = IF attempt = max_retries - 1
                               THEN [kind |-> "returned", value |-> SearchErrorMsg(e)]
                               ELSE [kind |-> "raised", value |-> e.str]
    /\ UNCHANGED <<callee, attempt, sleeps>>
    /\ UNCHANGED <<pipeVars, reportVars, concVars, extractVars, uiVars, sharedVars>>

\* mutant of FetchExcept: the last attempt is retried too (attempt < max_retries)
FetchExcept_OffByOne ==
    /\ callee = "fetch_policy_data" /\ rpc = "attempt"
    /\ \E e \in UpstreamErrors :
          /\ history' = Append(history, [ok |-> FALSE, err |-> e])
          /\ IF IsOverload(e.str) /\ attempt < max_retries
             THEN /\ rpc' = "sleep"
                  /\ result' = result
             ELSE /\ rpc' = "done"
                  /\ result' = IF attempt = max_retries - 1
                               THEN [kind |-> "returned", value |-> SearchErrorMsg(e)]
                               ELSE [kind |-> "raised", value |-> e.str]
    /\ UNCHANGED <<callee, attempt, sleeps>>
    /\ UNCHANGED <<pipeVars, reportVars, concVars, extractVars, uiVars, sharedVars>>

\* lines 52-66: tavily_client.search raises e
FetchExcept ==
    /\ callee = "fetch_policy_data" /\ rpc = "attempt"
    /\ \E e \in UpstreamErrors :
          /\ history' = Append(history, [ok |-> FALSE, err |-> e])
          /\ IF IsOverload(e.str) /\ attempt < max_retries - 1
             THEN /\ rpc' = "sleep"
                  /\ result' = result
             ELSE /\ rpc' = "done"
                  /\ result' = IF attempt = max_retries - 1
                               THEN [kind |-> "returned", value |-> SearchErrorMsg(e)]
                               ELSE [kind |-> "raised", value |-> e.str]
    /\ UNCHANGED <<callee, attempt, sleeps>>
    /\ UNCHANGED <<pipeVars, reportVars, concVars, extractVars, uiVars, sharedVars>>

\* lines 57-60 and 33: time.sleep(wait_time); continue
FetchSleep ==
    /\ callee = "fetch_policy_data" /\ rpc = "sleep"
    /\ sleeps' = Append(sleeps, WaitTime(attempt))
    /\ attempt' = attempt + 1
    /\ IF attempt + 1 < max_retries
       THEN rpc' = "attempt" /\ result' = result
       ELSE rpc' = "done" /\ result' = [kind |-> "returned", value |-> <<"None">>]
    /\ UNCHANGED <<callee, history>>
    /\ UNCHANGED <<pipeVars, reportVars, concVars, extractVars, uiVars, sharedVars>>

\* The generation request is retried by the model client as retry_options
\* (main.py 37-44) configures it: at most `attempts` attempts, again only on
\* the listed HTTP statuses.
\* a generation request is sent by the model built with retry_options
GenCall ==
    /\ callee = "idle"
    /\ callee' = "generate_content"
    /\ rpc' = "attempt" /\ attempt' = 0
    /\ UNCHANGED <<history, sleeps, result>>
    /\ UNCHANGED <<pipeVars, reportVars, concVars, extractVars, uiVars, sharedVars>>

\* the request succeeds
GenReturn ==
    /\ callee = "generate_content" /\ rpc = "attempt"
    /\ history' = Append(history, [ok |-> TRUE, err |-> Err(0, << >>)])
    /\ result' = [kind |-> "returned", value |-> <<"response">>]
    /\ rpc' = "done"
    /\ UNCHANGED <<callee, attempt, sleeps>>
    /\ UNCHANGED <<pipeVars, reportVars, concVars, extractVars, uiVars, sharedVars>>

\* the request fails with e: retried while the status is listed and attempts remain
GenExcept ==
    /\ callee = "generate_content" /\ rpc = "attempt"
    /\ \E e \in UpstreamErrors :
          /\ history' = Append(history, [ok |-> FALSE, err |-> e])
          /\ IF IsRetriedStatus(e) /\ attempt < attempts - 1
             THEN rpc' = "sleep" /\ result' = result
             ELSE rpc' = "done" /\ result' = [kind |-> "raised", value |-> e.str]
    /\ UNCHANGED <<callee, attempt, sleeps>>
    /\ UNCHANGED <<pipeVars, reportVars, concVars, extractVars, uiVars, sharedVars>>

\* the delay before the next attempt
GenSleep ==
    /\ callee = "generate_content" /\ rpc = "sleep"
    /\ sleeps' = Append(sleeps, RetryDelay(attempt))
    /\ attempt' = attempt + 1
    /\ rpc' = "attempt"
    /\ UNCHANGED <<callee, history, result>>
    /\ UNCHANGED <<pipeVars, reportVars, concVars, extractVars, uiVars, sharedVars>>

NextRetry ==
    \/ FetchCall
    \/ FetchReturn
    \/ FetchExcept
    \/ FetchSleep
    \/ GenCall
    \/ GenReturn
    \/ GenExcept
    \/ GenSleep

SpecRetry == InitRetry /\ [][NextRetry]_vars

\* every lookup returns or raises and every sleep ends
LiveSpecRetry == InitRetry /\ [][NextRetry]_vars /\ WF_vars(NextRetry)

----------------------------------------------------------------------------
(* generate_markdown_report (main.py 317-364)                              *)
(* In this part a string is the sequence of its lines: the string is the   *)
(* lines joined by "\n", and the empty string is the one empty line <<"">>. *)
(* A heading's emoji is written by its code point.                          *)

AnalysisHeading == "## (U+1F4CA) Analysis"
CritiqueHeading == "## (U+2696 U+FE0F) Critique"
LobbyistHeading == "## (U+1F4E2) Future Directives (Lobbyist)"
SummaryHeading == "## (U+1F4DD) Final Summary"
Headings == {AnalysisHeading, CritiqueHeading, LobbyistHeading, SummaryHeading}

\* "\n\n---\n\n<heading>\n\n": the template between two embedded strings
Separator(h) == <<"", "---", "", h, "">>

\* datetime.datetime.now().strftime("%Y-%m-%d %H:%M:%S")
Timestamps == {"2025-01-01 00:00:00"}

\* the arguments the report is generated from
ReportTopics == {<<"UBI">>, <<"UBI", "---">>}
ReportTexts ==
    { <<"">>, <<"x">>,
      <<"# x", "---", "y">>,
      <<"x">> \o Separator(CritiqueHeading) \o <<"y">>,
      <<"y">> \o Separator(CritiqueHeading) \o <<"x">>,
      <<"x", "", "---", "", CritiqueHeading>>,
      <<"---", "", CritiqueHeading, "", "x">>,
      <<CritiqueHeading, "x">> }
LateTexts == { <<"">>, <<"x">> }
ReportInputs ==
    [topic : ReportTopics, analysis : ReportTexts, critique : ReportTexts,
     lobbyist : LateTexts, summary : LateTexts, timestamp : Timestamps]

\* md_content = f"""...""": the template with the five arguments embedded
MdContent(in) ==
    <<"# Policy Analysis Report", "", "**Topic**: " \o Head(in.topic)>> \o Tail(in.topic)
    \o <<"**Generated**: " \o in.timestamp, "", "---", "", AnalysisHeading, "">>
    \o in.analysis \o Separator(CritiqueHeading)
    \o in.critique \o Separator(LobbyistHeading)
    \o in.lobbyist \o Separator(SummaryHeading)
    \o in.summary
    \o <<"", "---", "*Report generated by Popu Agent*", "">>

PipeIdle ==
    /\ pc = "start" /\ stage = 0 /\ ret = 0
    /\ status = [k \in Stages |-> "Pending"]
    /\ topic = <<"UBI">>
    /\ google_key = "" /\ tavily_key = ""
    /\ cfg_google = "env_google" /\ cfg_tavily = "env_tavily"
    /\ active_google_key = "" /\ active_tavily_key = ""
    /\ environ = cfg_google
    /\ analysis_text = << >> /\ critique_text = << >>
    /\ lobbyist_text = << >> /\ summary_text = << >>
    /\ n_events = 0 /\ sessions = {} /\ calls = << >> /\ snapshots = << >>

\* two calls of generate_markdown_report are about to be made
InitReport ==
    /\ PipeIdle /\ RetryIdle /\ ConcIdle /\ ExtractIdle /\ UIIdle /\ SharedIdle
    /\ gpc = "inputs"
    /\ inputs \in ReportInputs \X ReportInputs
    /\ docs = << >>

\* one call: temp_file.write(md_content)
GenerateReport ==
    /\ gpc = "inputs"
    /\ docs' = Append(docs, MdContent(inputs[Len(docs) + 1]))
    /\ gpc' = IF Len(docs) + 1 = Len(inputs) THEN "written" ELSE "inputs"
    /\ UNCHANGED inputs
    /\ UNCHANGED <<pipeVars, retryVars, concVars, extractVars, uiVars, sharedVars>>

NextReport == GenerateReport
SpecReport == InitReport /\ [][NextReport]_vars

----------------------------------------------------------------------------
(* Two runs of run_policy_analysis (two requests of the UI), interleaved at *)
(* their await points.  Each run executes line 133 and so constructs a      *)
(* session service of its own; the session ids are the same in every run.   *)

Runs == {1, 2}

\* mutant of ServiceOf: one session service, constructed once, serves every run
ServiceOf_Shared(r) == CHOOSE s \in Runs : \A t \in Runs : s <= t

\* session_service = InMemorySessionService(): the service run r constructed
ServiceOf(r) == r

\* an event the runner appends to a session
Message(r, k, role) == [run |-> r, stage |-> k, role |-> role]

InitConc ==
    /\ PipeIdle /\ RetryIdle /\ ReportIdle /\ ExtractIdle /\ UIIdle /\ SharedIdle
    /\ cpc = [r \in Runs |-> "create_session"]
    /\ cstage = [r \in Runs |-> Analyst]
    /\ cn = [r \in Runs |-> 0]
    /\ store = [s \in Runs |-> << >>]

\* await session_service.create_session(..., session_id=SessionId(stage)):
\* the service holds a new, empty session under that id
ConcCreateSession(r) ==
    /\ cpc[r] = "create_session"
    /\ store' = [store EXCEPT ![ServiceOf(r)] = (SessionId(cstage[r]) :> << >>) @@ @]
    /\ cpc' = [cpc EXCEPT ![r] = "run_async"]
    /\ UNCHANGED <<cstage, cn>>
    /\ UNCHANGED <<pipeVars, retryVars, reportVars, extractVars, uiVars, sharedVars>>

\* runner.run_async(user_id, session_id, new_message=msg): the runner looks
\* the session up in the run's service and appends the user message to it
ConcRunAsync(r) ==
    /\ cpc[r] = "run_async"
    /\ SessionId(cstage[r]) \in DOMAIN store[ServiceOf(r)]
    /\ store' = [store EXCEPT ![ServiceOf(r)][SessionId(cstage[r])] =
                    Append(@, Message(r, cstage[r], "user"))]
    /\ cpc' = [cpc EXCEPT ![r] = "events"]
    /\ cn' = [cn EXCEPT ![r] = 0]
    /\ UNCHANGED cstage
    /\ UNCHANGED <<pipeVars, retryVars, reportVars, extractVars, uiVars, sharedVars>>

\* one iteration of `async for event in ...`: the model was given the
\* session's events and the runner appends the event it produced
ConcEvent(r) ==
    /\ cpc[r] = "events"
    /\ cn[r] < MaxEvents
    /\ SessionId(cstage[r]) \in DOMAIN store[ServiceOf(r)]
    /\ store' = [store EXCEPT ![ServiceOf(r)][SessionId(cstage[r])] =
                    Append(@, Message(r, cstage[r], "model"))]
    /\ cn' = [cn EXCEPT ![r] = cn[r] + 1]
    /\ UNCHANGED <<cpc, cstage>>
    /\ UNCHANGED <<pipeVars, retryVars, reportVars, extractVars, uiVars, sharedVars>>

\* the stream of run r ends: next stage, or the end of the function
ConcStageComplete(r) ==
    /\ cpc[r] = "events"
    /\ IF cstage[r] < Synthesizer
       THEN /\ cstage' = [cstage EXCEPT ![r] = cstage[r] + 1]
            /\ cpc' = [cpc EXCEPT ![r] = "create_session"]
       ELSE /\ cstage' = cstage
            /\ cpc' = [cpc EXCEPT ![r] = "returned"]
    /\ cn' = [cn EXCEPT ![r] = 0]
    /\ UNCHANGED store
    /\ UNCHANGED <<pipeVars, retryVars, reportVars, extractVars, uiVars, sharedVars>>

\* an awaited call of run r raises: the stage's except block returns
ConcStageRaise(r) ==
    /\ cpc[r] \in {"create_session", "run_async", "events"}
    /\ cpc' = [cpc EXCEPT ![r] = "returned"]
    /\ UNCHANGED <<cstage, cn, store>>
    /\ UNCHANGED <<pipeVars, retryVars, reportVars, extractVars, uiVars, sharedVars>>

NextConc ==
    \E r \in Runs :
        \/ ConcCreateSession(r)
        \/ ConcRunAsync(r)
        \/ ConcEvent(r)
        \/ ConcStageComplete(r)
        \/ ConcStageRaise(r)

SpecConc == InitConc /\ [][NextConc]_vars

----------------------------------------------------------------------------
(* The event loop of one stage (main.py 138-163) on every stream of at most *)
(* MaxEvents events                                                         *)

Streams == UNION {[1..n -> Events] : n \in 0..MaxEvents}

\* analysis_text = "" and the stream the runner is going to deliver
InitExtract ==
    /\ PipeIdle /\ RetryIdle /\ ReportIdle /\ ConcIdle /\ UIIdle /\ SharedIdle
    /\ xstream \in Streams
    /\ xseen = 0
    /\ xtext = << >>

\* one iteration of the `async for`
ExtractStep ==
    /\ xseen < Len(xstream)
    /\ xtext' = ExtractText(xstream[xseen + 1], xtext)
    /\ xseen' = xseen + 1
    /\ UNCHANGED xstream
    /\ UNCHANGED <<pipeVars, retryVars, reportVars, concVars, uiVars, sharedVars>>

NextExtract == ExtractStep
SpecExtract == InitExtract /\ [][NextExtract]_vars

----------------------------------------------------------------------------
(* The UI (main.py 367-422), one browser session.  The click of analyze_btn *)
(* iterates run_policy_analysis, every yielded tuple replacing the values   *)
(* of the four outputs; the .then() handler runs when the generator has     *)
(* ended; a click is accepted only while no run of the session is pending.  *)
(* Strings are sequences of lines, as for the report.                       *)

\* tuples a run may yield
UISnapshots ==
    { << <<"x">>, <<"">>, <<"">>, <<"">> >>,
      << <<"x">>, <<"y">>, <<"x", "y">>, <<"y">> >>,
      << <<"Error">>, <<"Error">>, <<"Error">>, <<"Error">> >> }

\* the page is loaded: gr.State() is None, the button is interactive=False
InitUI ==
    /\ PipeIdle /\ RetryIdle /\ ReportIdle /\ ConcIdle /\ ExtractIdle /\ SharedIdle
    /\ upc = "idle" /\ uruns = 0 /\ uyields = 0
    /\ topic_input \in ReportTopics
    /\ outputs = << <<"">>, <<"">>, <<"">>, <<"">> >>
    /\ states = << >>
    /\ download_btn = FALSE
    /\ report = << >>
    /\ ended = << >>

\* the user edits the topic textbox
UIEditTopic ==
    /\ \E t \in ReportTopics : t # topic_input /\ topic_input' = t
    /\ UNCHANGED <<upc, uruns, uyields, outputs, states, download_btn, report, ended>>
    /\ UNCHANGED <<pipeVars, retryVars, reportVars, concVars, extractVars, sharedVars>>

\* analyze_btn.click(fn=run_policy_analysis, ...)
UIClickAnalyze ==
    /\ upc = "idle"
    /\ uruns < MaxRuns
    /\ upc' = "running"
    /\ uruns' = uruns + 1
    /\ uyields' = 0
    /\ UNCHANGED <<topic_input, outputs, states, download_btn, report, ended>>
    /\ UNCHANGED <<pipeVars, retryVars, reportVars, concVars, extractVars, sharedVars>>

\* mutant of UIYield: the generator's tuple also enables the download button
UIYield_Enables ==
    /\ upc = "running"
    /\ uyields < MaxYields
    /\ outputs' \in UISnapshots
    /\ uyields' = uyields + 1
    /\ download_btn' = TRUE
    /\ UNCHANGED <<upc, uruns, topic_input, states, report, ended>>
    /\ UNCHANGED <<pipeVars, retryVars, reportVars, concVars, extractVars, sharedVars>>

\* the generator yields: outputs=[analysis_output, ..., summary_output]
UIYield ==
    /\ upc = "running"
    /\ uyields < MaxYields
    /\ outputs' \in UISnapshots
    /\ uyields' = uyields + 1
    /\ UNCHANGED <<upc, uruns, topic_input, states, download_btn, report, ended>>
    /\ UNCHANGED <<pipeVars, retryVars, reportVars, concVars, extractVars, sharedVars>>

\* the generator returns (every run has yielded at least once)
UIRunEnds ==
    /\ upc = "running"
    /\ uyields >= 1
    /\ upc' = "ended"
    /\ ended' = Append(ended, outputs)
    /\ UNCHANGED <<uruns, uyields, topic_input, outputs, states, download_btn, report>>
    /\ UNCHANGED <<pipeVars, retryVars, reportVars, concVars, extractVars, sharedVars>>

\* .then(fn=lambda ...): the textbox and the outputs are copied into the
\* states and the button becomes gr.DownloadButton(interactive=True)
UIThen ==
    /\ upc = "ended"
    /\ states' = [topic |-> topic_input, analysis |-> outputs[1], critique |-> outputs[2],
                  lobbyist |-> outputs[3], summary |-> outputs[4]]
    /\ download_btn' = TRUE
    /\ upc' = "idle"
    /\ UNCHANGED <<uruns, uyields, topic_input, outputs, report, ended>>
    /\ UNCHANGED <<pipeVars, retryVars, reportVars, concVars, extractVars, sharedVars>>

\* download_btn.click(fn=generate_markdown_report, inputs=[the five states])
UIDownload ==
    /\ download_btn
    /\ \E ts \in Timestamps :
          report' = MdContent([topic |-> states.topic, analysis |-> states.analysis,
                               critique |-> states.critique, lobbyist |-> states.lobbyist,
                               summary |-> states.summary, timestamp |-> ts])
    /\ UNCHANGED <<upc, uruns, uyields, topic_input, outputs, states, download_btn, ended>>
    /\ UNCHANGED <<pipeVars, retryVars, reportVars, concVars, extractVars, sharedVars>>

NextUI ==
    \/ UIEditTopic
    \/ UIClickAnalyze
    \/ UIYield
    \/ UIRunEnds
    \/ UIThen
    \/ UIDownload

SpecUI == InitUI /\ [][NextUI]_vars

----------------------------------------------------------------------------
(* Two runs of run_policy_analysis in one process: what they share.        *)
(*   - os.environ["GOOGLE_API_KEY"] is one variable of the process; every   *)
(*     run writes its own key to it (line 34).  Gemini(...) is given no key  *)
(*     (line 44): the API client of the model takes the key from the        *)
(*     environment when it is built, which the model does either in its     *)
(*     constructor or at its first request; both are modelled.              *)
(*   - the runs are coroutines of one event loop, so they interleave at     *)
(*     their await points only; fetch_policy_data is a plain function that   *)
(*     the runner calls on that loop, and its time.sleep (tools.py 59)       *)
(*     returns control to nobody: no coroutine runs until it is over.       *)

\* the key run r resolved at lines 21-22: two different keys
RunKey(r) == <<"key_a", "key_b">>[r]

\* the event loop's thread is inside time.sleep
Sleeping == \E r \in Runs : spc[r] = "sleeping"

\* both runs have passed the credential check and yielded line 30
InitShared ==
    /\ PipeIdle /\ RetryIdle /\ ReportIdle /\ ConcIdle /\ ExtractIdle /\ UIIdle
    /\ spc = [r \in Runs |-> "setup"]
    /\ sstage = [r \in Runs |-> Analyst]
    /\ sn = [r \in Runs |-> 0]
    /\ ssleeps = [r \in Runs |-> 0]
    /\ senv \in GoogleDefaults
    /\ sclient = [r \in Runs |-> ""]
    /\ scalls = {}

\* lines 33-137 of run r: the key is written to the environment, the model
\* is constructed, the run suspends at the yield of line 137
SharedSetup(r) ==
    /\ spc[r] = "setup" /\ ~Sleeping
    /\ senv' = RunKey(r)
    /\ \E k \in {"", RunKey(r)} : sclient' = [sclient EXCEPT ![r] = k]
    /\ spc' = [spc EXCEPT ![r] = "stage"]
    /\ UNCHANGED <<sstage, sn, ssleeps, scalls>>
    /\ UNCHANGED <<pipeVars, retryVars, reportVars, concVars, extractVars, uiVars>>

\* the runner of run r sends a generation request through the model's client
SharedGenerate(r) ==
    /\ spc[r] = "stage" /\ ~Sleeping
    /\ sn[r] < MaxEvents
    /\ sclient' = [sclient EXCEPT ![r] = IF sclient[r] = "" THEN senv ELSE sclient[r]]
    /\ scalls' = scalls \cup {[run |-> r, stage |-> sstage[r], key |-> sclient'[r]]}
    /\ sn' = [sn EXCEPT ![r] = sn[r] + 1]
    /\ UNCHANGED <<spc, sstage, ssleeps, senv>>
    /\ UNCHANGED <<pipeVars, retryVars, reportVars, concVars, extractVars, uiVars>>

\* the model of run r calls the search tool, the lookup fails with an
\* overload error and fetch_policy_data enters time.sleep(wait_time)
SharedToolSleep(r) ==
    /\ spc[r] = "stage" /\ ~Sleeping
    /\ AgentTools(sstage[r]) = <<"tavily_search_tool">>
    /\ ssleeps[r] < MaxSleeps
    /\ spc' = [spc EXCEPT ![r] = "sleeping"]
    /\ ssleeps' = [ssleeps EXCEPT ![r] = ssleeps[r] + 1]
    /\ UNCHANGED <<sstage, sn, senv, sclient, scalls>>
    /\ UNCHANGED <<pipeVars, retryVars, reportVars, concVars, extractVars, uiVars>>

\* time.sleep returns
SharedWake(r) ==
    /\ spc[r] = "sleeping"
    /\ spc' = [spc EXCEPT ![r] = "stage"]
    /\ UNCHANGED <<sstage, sn, ssleeps, senv, sclient, scalls>>
    /\ UNCHANGED <<pipeVars, retryVars, reportVars, concVars, extractVars, uiVars>>

\* the stream of the stage ends: next stage, or the end of the function
SharedStageComplete(r) ==
    /\ spc[r] = "stage" /\ ~Sleeping
    /\ IF sstage[r] < Synthesizer
       THEN /\ sstage' = [sstage EXCEPT ![r] = sstage[r] + 1]
            /\ spc' = spc
       ELSE /\ sstage' = sstage
            /\ spc' = [spc EXCEPT ![r] = "returned"]
    /\ sn' = [sn EXCEPT ![r] = 0]
    /\ UNCHANGED <<ssleeps, senv, sclient, scalls>>
    /\ UNCHANGED <<pipeVars, retryVars, reportVars, concVars, extractVars, uiVars>>

\* setup or a stage of run r raises: the except block yields and returns
SharedRaise(r) ==
    /\ spc[r] \in {"setup", "stage"} /\ ~Sleeping
    /\ spc' = [spc EXCEPT ![r] = "returned"]
    /\ UNCHANGED <<sstage, sn, ssleeps, senv, sclient, scalls>>
    /\ UNCHANGED <<pipeVars, retryVars, reportVars, concVars, extractVars, uiVars>>

\* a step of run r's coroutine
SharedStep(r) ==
    \/ SharedSetup(r)
    \/ SharedGenerate(r)
    \/ SharedToolSleep(r)
    \/ SharedStageComplete(r)
    \/ SharedRaise(r)

NextShared == \E r \in Runs : SharedStep(r) \/ SharedWake(r)

SpecShared == InitShared /\ [][NextShared]_vars

----------------------------------------------------------------------------
(* Properties of run_policy_analysis, checked under Spec *)

Last(seq) == seq[Len(seq)]
Finished(k) == status[k] \in {"Succeeded", "Failed"}
CallsOf(k) == {i \in 1..Len(calls) : calls[i].stage = k}
StageUntouched(k) == status[k] = "Pending" /\ SessionId(k) \notin sessions /\ CallsOf(k) = {}
ErrorPrefixes == {"Analyst Failed: ", "Critic Failed: ", "Lobbyist Failed: ", "Summary Failed: "}
IsStageError(slot) == slot # << >> /\ Head(slot) \in ErrorPrefixes

\* C1: a stage's session and generation call exist only once the stage before
\* it has completed without error (Critic after Analyst, Lobbyist after
\* Critic, Synthesizer after Lobbyist), the calls are made in stage order,
\* and at most one stage is executing at any moment.
C1_SequentialStages ==
    /\ \A k \in 2..4 : ~StageUntouched(k) => status[k - 1] = "Succeeded"
    /\ \A i \in 1..Len(calls) : calls[i].stage = i
    /\ Cardinality({k \in Stages : status[k] = "Running"}) <= 1

C1_Witness == status[Synthesizer] = "Running" /\ Len(calls) = 4

\* C2: once the Analyst, Critic or Lobbyist stage has failed, every later
\* stage is Pending and stays so: it has no session and no generation call,
\* and the generator has returned.
C2_FailFast ==
    \A k \in 1..3 : status[k] = "Failed" =>
        /\ pc = "returned"
        /\ \A j \in (k + 1)..4 : StageUntouched(j)

C2_Witness == status[Critic] = "Failed" /\ status[Analyst] = "Succeeded"

\* C3: when stage k fails with an error, the last snapshot holds the texts of
\* stages 1..k-1 in their slots, an error string in slot k and the empty
\* string in every later slot, and the generator has returned.
C3_FailureSnapshot ==
    \A k \in Stages : status[k] = "Failed" =>
        /\ pc = "returned"
        /\ snapshots # << >>
        /\ \A j \in 1..(k - 1) : Last(snapshots).slots[j] = Text(j)
        /\ \A j \in 1..(k - 1) : \E i \in 1..(Len(snapshots) - 1) :
               /\ snapshots[i].line = SuccessLine(j)
               /\ snapshots[i].slots[j] = Last(snapshots).slots[j]
        /\ IsStageError(Last(snapshots).slots[k])
        /\ \A j \in (k + 1)..4 : Last(snapshots).slots[j] = << >>

C3_Witness ==
    /\ status[Lobbyist] = "Failed"
    /\ analysis_text = <<"a">> /\ critique_text = <<"a", "\n", "b">>

\* C4 (as claimed): a stage among Analyst, Critic, Lobbyist that completes
\* without error with an empty or whitespace-only text halts the run: no
\* later stage gets a session, a generation call or leaves Pending.
C4_EmptyTextHalts ==
    \A k \in 1..3 : (status[k] = "Succeeded" /\ StripIsEmpty(Text(k))) =>
        \A j \in (k + 1)..4 : StageUntouched(j)

\* C5: each key resolves to the per-run value when that is non-empty and to
\* the configured default otherwise; with a resolved key empty the run yields
\* exactly one snapshot, four times the authentication error, and returns
\* with no session, no generation call and every stage Pending.
C5_AuthCheck ==
    pc # "start" =>
        /\ google_key # "" => active_google_key = google_key
        /\ google_key = "" => active_google_key = cfg_google
        /\ tavily_key # "" => active_tavily_key = tavily_key
        /\ tavily_key = "" => active_tavily_key = cfg_tavily
        /\ (active_google_key = "" \/ active_tavily_key = "") =>
              /\ pc = "returned"
              /\ Len(snapshots) = 1
              /\ \E err \in {<<"Error: Missing API Keys. Please provide both Google API Key and Tavily API Key.">>} :
                    snapshots[1].slots = <<err, err, err, err>>
              /\ sessions = {} /\ calls = << >>
              /\ \A k \in Stages : status[k] = "Pending"

C5_Witness ==
    /\ pc = "returned" /\ ret = 28
    /\ google_key = "user_key" /\ tavily_key = "" /\ cfg_tavily = ""

\* C9: results appear in stage order: whenever a snapshot is yielded at a
\* moment where stage N has finished, stage N-1 has succeeded and its text
\* is in slot N-1 of that snapshot or of an earlier one.
C9_StageOrder ==
    [][snapshots' # snapshots =>
          \A N \in 2..4 :
             (status'[N] \in {"Succeeded", "Failed"}) =>
                /\ status'[N - 1] = "Succeeded"
                /\ \E j \in 1..Len(snapshots') :
                      /\ snapshots'[j].line \in {SuccessLine(m) : m \in (N - 1)..4}
                                                 \cup {FailureLine(m) : m \in N..4}
                      /\ snapshots'[j].slots[N - 1] = Text(N - 1)']_vars

C9_Witness == ret = 315 /\ Len(snapshots) = 6

\* C10: when all four stages succeed, the final snapshot is the 4-tuple of
\* the texts the stages returned (each as first shown when its stage
\* completed), and the prompt of each later stage embeds the earlier texts
\* verbatim: Critic the Analyst's, Lobbyist the Analyst's and the Critic's,
\* Synthesizer all three.
C10_EndToEnd ==
    ret = 315 =>
        /\ Last(snapshots).slots = <<analysis_text, critique_text, lobbyist_text, summary_text>>
        /\ \A k \in 1..3 : \E i \in 1..Len(snapshots) :
               /\ snapshots[i].line = SuccessLine(k)
               /\ snapshots[i].slots[k] = Last(snapshots).slots[k]
        /\ Len(calls) = 4
        /\ Embeds(calls[1].prompt, topic)
        /\ Embeds(calls[2].prompt, analysis_text)
        /\ Embeds(calls[3].prompt, analysis_text) /\ Embeds(calls[3].prompt, critique_text)
        /\ Embeds(calls[4].prompt, analysis_text) /\ Embeds(calls[4].prompt, critique_text)
        /\ Embeds(calls[4].prompt, lobbyist_text)

C10_Witness ==
    /\ ret = 315
    /\ analysis_text = <<"a">> /\ critique_text = <<"a", "\n", "b">>
    /\ lobbyist_text = <<"b">> /\ summary_text = <<"a">>

----------------------------------------------------------------------------
(* Further properties of run_policy_analysis *)

IsErrorString(slot) ==
    slot # << >> /\ Head(slot) \in (ErrorPrefixes \cup {"Setup Error: ",
        "Error: Missing API Keys. Please provide both Google API Key and Tavily API Key."})
AllSlotsError(snap) == \A j \in 1..4 : IsErrorString(snap.slots[j])
ProgressMarkers ==
    {<<">>> Analyst: Searching for data...\n">>,
     <<">>> Analyst finished. Starting Critic...\n">>,
     <<">>> Critic finished. Starting Lobbyist...\n">>,
     <<">>> Lobbyist finished. Synthesizing Final Report...\n">>}

\* C12 (as claimed): after a stage has failed, no slot of a later stage is
\* blank in the failure snapshot: each holds a progress marker.
C12_LaterSlotsMarked ==
    \A k \in 1..3 : status[k] = "Failed" =>
        \A j \in (k + 1)..4 : Last(snapshots).slots[j] \in ProgressMarkers

\* C12 (amended): after a stage has failed, every slot of a later stage is
\* the empty string in the failure snapshot, as it was in every earlier
\* snapshot: a later slot never held a progress marker.
C12_LaterSlotsBlank ==
    \A k \in 1..3 : status[k] = "Failed" =>
        \A j \in (k + 1)..4 : \A i \in 1..Len(snapshots) : snapshots[i].slots[j] = << >>

C12_Witness == status[Analyst] = "Failed" /\ Len(snapshots) = 3

\* C13: the run terminates (with every step eventually taken), it never has
\* yielded more than six snapshots, and once it has returned it yields
\* nothing more.
C13_Terminates ==
    /\ <>(pc = "returned")
    /\ [](Len(snapshots) <= 6)
    /\ [][pc = "returned" => snapshots' = snapshots]_vars

C13_Witness == pc = "returned" /\ Len(snapshots) = 6 /\ status[Synthesizer] = "Failed"

\* C14: an error raised in a stage (at session creation, at the runner or
\* during the generation call) ends the run by a return statement of that
\* stage's except block, after a snapshot whose slot of the failed stage
\* reads "<stage> Failed: <error>".
C14_ErrorsCaught ==
    \A k \in Stages : status[k] = "Failed" =>
        /\ pc = "returned"
        /\ ret = <<172, 212, 258, 311>>[k]
        /\ Last(snapshots).line = ret - 1
        /\ Last(snapshots).slots[k] # << >>
        /\ Head(Last(snapshots).slots[k])
             = <<"Analyst Failed: ", "Critic Failed: ", "Lobbyist Failed: ", "Summary Failed: ">>[k]
        /\ Tail(Last(snapshots).slots[k]) \in Exceptions

C14_Witness ==
    /\ status[Critic] = "Failed" /\ "sess_critic" \notin sessions
    /\ pc = "returned"

\* snapshot i was yielded after stage k had completed
CarriesText(i, k) ==
    snapshots[i].line \in {SuccessLine(m) : m \in k..4} \cup {FailureLine(m) : m \in (k + 1)..4}

\* the yields of stage k's own block: its entry marker, its text, its error
OwnLines(k) ==
    IF k = 1 THEN {137, 171, 175}
    ELSE {SuccessLine(k - 1), FailureLine(k), SuccessLine(k)}

NoRollback ==
    \A k \in Stages : \A i \in 1..Len(snapshots) : \A j \in i..Len(snapshots) :
        CarriesText(i, k) => snapshots[j].slots[k] = snapshots[i].slots[k]

\* C17 (as claimed): a slot that carries its stage's text keeps it in every
\* later snapshot, and a slot changes only at a yield of its own stage.
C17_OnlyOwnStage ==
    /\ NoRollback
    /\ \A k \in Stages : \A i \in 1..(Len(snapshots) - 1) :
          snapshots[i + 1].slots[k] # snapshots[i].slots[k]
             => snapshots[i + 1].line \in OwnLines(k)

\* C17 (amended): a slot that carries its stage's text keeps it in every
\* later snapshot, and a slot changes only at a yield of its own stage, or
\* at the yield of a setup failure, which comes before any stage has begun
\* and sets all four slots to the setup error.
C17_NoRollback ==
    /\ NoRollback
    /\ \A k \in Stages : \A i \in 1..(Len(snapshots) - 1) :
          snapshots[i + 1].slots[k] # snapshots[i].slots[k]
             => \/ snapshots[i + 1].line \in OwnLines(k)
                \/ /\ snapshots[i + 1].line = 56
                   /\ \A m \in Stages : status[m] = "Pending"
                   /\ \A m \in Stages : Head(snapshots[i + 1].slots[m]) = "Setup Error: "

C17_Witness ==
    /\ ret = 315 /\ analysis_text = <<"a">> /\ critique_text = <<"b">>
    /\ lobbyist_text = <<"a", "\n", "b">>

\* C19: whatever the Synthesizer stage does (text, empty response, error),
\* the last snapshot holds in its first three slots the texts shown when
\* the Lobbyist completed; an empty or blank Synthesizer response ends the
\* run at the final yield with that text in the summary slot.
C19_SynthesizerOutcome ==
    Finished(Synthesizer) =>
        /\ pc = "returned"
        /\ \E i \in 1..(Len(snapshots) - 1) :
               /\ snapshots[i].line = 261
               /\ \A j \in 1..3 : Last(snapshots).slots[j] = snapshots[i].slots[j]
        /\ \A j \in 1..3 : Last(snapshots).slots[j] = Text(j)
        /\ status[Synthesizer] = "Succeeded" =>
               (ret = 315 /\ Last(snapshots).slots[4] = summary_text)
        /\ status[Synthesizer] = "Failed" => IsStageError(Last(snapshots).slots[4])

C19_Witness ==
    /\ status[Synthesizer] = "Succeeded" /\ summary_text = << >>
    /\ ret = 315 /\ lobbyist_text = <<"b">>

C19_WitnessRaised == status[Synthesizer] = "Failed" /\ lobbyist_text = <<"b">>

\* C20 (as claimed): in a run whose keys both resolve to non-empty values,
\* no snapshot has an error string in all four slots.
C20_OnlyMissingKeys ==
    (pc # "start" /\ active_google_key # "" /\ active_tavily_key # "") =>
        \A i \in 1..Len(snapshots) : ~AllSlotsError(snapshots[i])

\* C20 (amended): a snapshot has an error string in all four slots only for
\* missing keys (the yield of line 27) or for a failure of the setup block
\* (the yield of line 56); in a run whose keys both resolve to non-empty
\* values only the setup failure gives such a snapshot, and it is the last.
C20_FourErrorSlots ==
    \A i \in 1..Len(snapshots) : AllSlotsError(snapshots[i]) =>
        /\ snapshots[i].line \in {27, 56}
        /\ i = Len(snapshots) /\ pc = "returned"
        /\ snapshots[i].line = 27 <=> (active_google_key = "" \/ active_tavily_key = "")
        /\ snapshots[i].line = 56 => Head(snapshots[i].slots[1]) = "Setup Error: "

C20_Witness ==
    /\ ret = 57 /\ active_google_key # "" /\ active_tavily_key # ""
    /\ AllSlotsError(Last(snapshots))

\* C16 (as claimed): the agent run in the Synthesizer stage has an empty
\* tool list, so no search tool can be invoked while that stage executes.
C16_SynthesizerNoTools ==
    \A i \in 1..Len(calls) : calls[i].stage = Synthesizer => calls[i].tools = << >>

\* C23: a generation call of a stage uses the session created for that
\* stage, which exists when the call is made; the session of stage k is
\* created only after stage k-1 has completed; and the sessions of the
\* four stages are four distinct sessions.
C23_SessionPerStage ==
    /\ \A i \in 1..Len(calls) :
          /\ calls[i].session_id \in sessions
          /\ calls[i].session_id
               = <<"sess_analyst", "sess_critic", "sess_lobbyist", "sess_summary">>[calls[i].stage]
          /\ \A j \in 1..Len(calls) :
                calls[i].session_id = calls[j].session_id => calls[i].stage = calls[j].stage
    /\ \A k \in 2..4 : SessionId(k) \in sessions => status[k - 1] = "Succeeded"
    /\ \A k \in Stages : status[k] = "Pending" => SessionId(k) \notin sessions
    /\ Cardinality(sessions) = Cardinality({k \in Stages : SessionId(k) \in sessions})

C23_Witness == Len(calls) = 4 /\ Cardinality(sessions) = 4 /\ pc = "events"

\* a progress message: the start message of line 30 or a stage marker
IsMarker(slot) ==
    slot \in ProgressMarkers \/ (slot # << >> /\ Head(slot) = "Starting analysis for: ")
MarkerSlots(snap) == {j \in 1..4 : IsMarker(snap.slots[j])}

\* C26: a snapshot has at most one slot with a progress marker; the slots
\* after the marker are empty and the slots before it hold the texts of the
\* completed stages; and while a stage is executing (or about to), the last
\* snapshot has its marker in that stage's slot.
C26_OneMarker ==
    /\ \A i \in 1..Len(snapshots) :
          /\ Cardinality(MarkerSlots(snapshots[i])) <= 1
          /\ \A j \in MarkerSlots(snapshots[i]) :
                /\ \A m \in (j + 1)..4 : snapshots[i].slots[m] = << >>
                /\ \A m \in 1..(j - 1) :
                      /\ status[m] = "Succeeded"
                      /\ snapshots[i].slots[m] = Text(m)
    /\ pc = "setup" => MarkerSlots(Last(snapshots)) = {Analyst}
    /\ pc \in {"create_session", "run_async", "events"} =>
          MarkerSlots(Last(snapshots)) = {stage}

C26_Witness ==
    /\ pc = "events" /\ stage = Lobbyist
    /\ Last(snapshots).slots = <<<<"a">>, << >>, <<">>> Critic finished. Starting Lobbyist...\n">>, << >>>>

\* C28: a run that returns at the credential check (line 28) has left the
\* process environment as it was, has created no session, has made no
\* generation or search call and has started no stage: that step changes
\* the run's own variables and its one snapshot only.
C28_AuthFailureFrame ==
    /\ [](ret = 28 =>
            /\ pc = "returned"
            /\ environ = cfg_google
            /\ sessions = {} /\ calls = << >>
            /\ callee = "idle" /\ history = << >>
            /\ \A k \in Stages : status[k] = "Pending"
            /\ Len(snapshots) = 1 /\ snapshots[1].line = 27)
    /\ [][ret' = 28 => UNCHANGED <<environ, sessions, calls, status, stage, retryVars>>]_vars

C28_Witness ==
    /\ ret = 28 /\ google_key = "user_key" /\ cfg_google = "env_google"
    /\ active_tavily_key = ""

----------------------------------------------------------------------------
(* Properties of the retried calls, checked under SpecRetry *)

Done == rpc = "done"
Failure(i) == ~history[i].ok
IsSearchError(r) == r.kind = "returned" /\ r.value # << >> /\ Head(r.value) = "Error during search: "
EndedInFailure == result.kind = "raised" \/ IsSearchError(result)
EndedInSuccess == result.kind = "returned" /\ ~IsSearchError(result) /\ result.value # <<"None">>

\* the errors each call treats as retryable, listed from UpstreamErrors
FetchRetryable == { Err(503, <<"5", "0", "3">>), Err(0, <<"O", "v", "e", "r", "l", "o", "a", "d">>) }
GenRetryable == { Err(503, <<"5", "0", "3">>), Err(429, <<"4", "2", "9">>),
                  Err(504, <<"5", "0", "4">>), Err(500, <<"5", "0", "0">>) }
Retryable == IF callee = "fetch_policy_data" THEN FetchRetryable ELSE GenRetryable
AttemptBound == IF callee = "fetch_policy_data" THEN 3 ELSE 5

\* the first n attempts all failed with an error the call retries
TransientRun(n) == Len(history) >= n /\ \A i \in 1..n : Failure(i) /\ history[i].err \in Retryable

\* attempt i was followed by a backoff and another attempt
Retried(i) == i < Len(history) \/ (i = Len(history) /\ rpc \in {"sleep", "attempt"})

\* the transient signatures of the written design: HTTP 429, 503, 504, or
\* the words "overload" / "unavailable"
ClaimedTransient(e) ==
    \/ e.code \in {429, 503, 504}
    \/ Embeds(Lower(e.str), <<"o", "v", "e", "r", "l", "o", "a", "d">>)
    \/ Embeds(Lower(e.str), <<"u", "n", "a", "v", "a", "i", "l", "a", "b", "l", "e">>)

\* the first n attempts all failed with a transient signature of the design
ClaimedTransientRun(n) ==
    Len(history) >= n /\ \A i \in 1..n : Failure(i) /\ ClaimedTransient(history[i].err)

\* C6 (as claimed): whatever the error of the lookup and whichever the
\* attempt, fetch_policy_data ends by returning a string that starts with
\* "Error during search: " and does not raise.
C6_ErrorsAsData ==
    (callee = "fetch_policy_data" /\ Done /\ Failure(Len(history))) =>
        IsSearchError(result)

\* C7 (as claimed): with K transient failures followed by a success the call
\* succeeds if K < 3 and ends in failure if K >= 3, and no call makes more
\* than 3 attempts.
C7_RetryBoundThree ==
    callee # "idle" =>
        /\ Len(history) <= 3
        /\ ClaimedTransientRun(3) => (Done /\ EndedInFailure)
        /\ \A K \in 0..2 : (Len(history) = K /\ ClaimedTransientRun(K)) => ~Done
        /\ (Done /\ history # << >> /\ ~Failure(Len(history))) => EndedInSuccess

\* C7 (amended): with K failures that the call itself retries followed by a
\* success, fetch_policy_data succeeds if K < 3 and ends in failure if
\* K >= 3, with at most 3 attempts; the generation request succeeds if K < 5
\* and ends in failure if K >= 5, with at most 5 attempts.
C7_RetryBound ==
    callee # "idle" =>
        /\ Len(history) <= AttemptBound
        /\ TransientRun(AttemptBound) => (Done /\ EndedInFailure)
        /\ \A K \in 0..(AttemptBound - 1) :
               (Len(history) = K /\ TransientRun(K)) => ~Done
        /\ (Done /\ history # << >> /\ ~Failure(Len(history))) => EndedInSuccess

C7_Witness ==
    /\ callee = "fetch_policy_data" /\ Done /\ EndedInSuccess
    /\ Len(history) = 3 /\ TransientRun(2)

\* C8 (as claimed): a failed attempt is retried (attempts remaining) exactly
\* if its error is HTTP 429, 503 or 504 or says "overload" or "unavailable";
\* any other error ends the call at once with no backoff.
C8_ClaimedClassification ==
    \A i \in 1..Len(history) : Failure(i) =>
        /\ (ClaimedTransient(history[i].err) /\ i < AttemptBound) => Retried(i)
        /\ ~ClaimedTransient(history[i].err) => (i = Len(history) /\ Done /\ Len(sleeps) = i - 1)

\* C8 (amended): fetch_policy_data retries a failed attempt exactly if the
\* error text contains "503" or, in any case, "overload" and the attempt is
\* not the third; the generation request is retried exactly on HTTP 429,
\* 500, 503, 504 while fewer than 5 attempts were made; any other error ends
\* the call at once, with no further attempt and no backoff delay.
C8_Classification ==
    /\ \A i \in 1..Len(history) : Failure(i) =>
          /\ (history[i].err \in Retryable /\ i < AttemptBound) => Retried(i)
          /\ ~(history[i].err \in Retryable /\ i < AttemptBound)
                => (i = Len(history) /\ Done /\ EndedInFailure)
    /\ Done => Len(sleeps) = Len(history) - 1
    /\ rpc = "sleep" => Len(sleeps) = Len(history) - 1
    /\ rpc = "attempt" => Len(sleeps) = Len(history)

C8_Witness ==
    /\ callee = "fetch_policy_data" /\ Done /\ result.kind = "raised"
    /\ Len(history) = 2 /\ Len(sleeps) = 1
    /\ history[1].err = Err(0, <<"O", "v", "e", "r", "l", "o", "a", "d">>)
    /\ history[2].err = Err(429, <<"4", "2", "9">>)

NonDecreasing == \A i \in 1..(Len(sleeps) - 1) : sleeps[i] <= sleeps[i + 1]

\* every delay is followed by an attempt: a finished call has slept once
\* less than it has tried
NoTrailingDelay ==
    /\ Len(sleeps) <= Len(history)
    /\ rpc = "done" => Len(sleeps) = Len(history) - 1

\* C18 (as claimed): the delays of a retried call are non-decreasing, double
\* from one second (the i-th delay is 2^(i-1) seconds), are bounded by the
\* base raised to the attempt index, and none follows the last attempt.
C18_DelaysDouble ==
    /\ NonDecreasing
    /\ \A i \in 1..Len(sleeps) : sleeps[i] = 2 ^ (i - 1) /\ sleeps[i] <= 2 ^ i
    /\ NoTrailingDelay

\* C18 (amended): the delays of a retried call are non-decreasing and none
\* follows the last attempt; fetch_policy_data sleeps 2^attempt seconds, so
\* its delays are 1s then 2s and there is no third one; the generation
\* request is configured with initial delay 1 and multiplier exp_base = 7,
\* so its nominal delays are 1, 7, 49, 343 seconds, at most attempts - 1 of
\* them; the i-th delay is at most the base (2, resp. 7) to the power i.
C18_Backoff ==
    /\ NonDecreasing
    /\ NoTrailingDelay
    /\ callee = "fetch_policy_data" =>
          /\ Len(sleeps) <= max_retries - 1
          /\ \A i \in 1..Len(sleeps) : sleeps[i] = 2 ^ (i - 1) /\ sleeps[i] <= 2 ^ i
    /\ callee = "generate_content" =>
          /\ Len(sleeps) <= attempts - 1
          /\ \A i \in 1..Len(sleeps) :
                sleeps[i] = initial_delay * exp_base ^ (i - 1) /\ sleeps[i] <= exp_base ^ i

C18_Witness ==
    /\ callee = "fetch_policy_data" /\ rpc = "done"
    /\ sleeps = <<1, 2>> /\ Len(history) = 3

C18_WitnessGen == callee = "generate_content" /\ sleeps = <<1, 7, 49, 343>>

----------------------------------------------------------------------------
(* Properties of generate_markdown_report, checked under SpecReport *)

Sections(in) == <<in.analysis, in.critique, in.lobbyist, in.summary>>
Lines(text) == {text[i] : i \in 1..Len(text)}
RuleFree(in) == \A j \in 1..4 : "---" \notin Lines(Sections(in)[j])
HeadingFree(in) == \A j \in 1..4 : Lines(Sections(in)[j]) \cap Headings = {}

\* C15 (as claimed): the four sections can be read back from the report
\* exactly, whatever the strings: two calls that wrote the same document
\* were given the same analysis, critique, lobbyist and summary.
C15_RoundTrip ==
    (gpc = "written" /\ docs[1] = docs[2]) => Sections(inputs[1]) = Sections(inputs[2])

\* The documents are unambiguous for texts of which no line is the rule
\* "---", and for texts of which no line is one of the four section headings
\* of the report: two such calls that wrote the same document were given the
\* same four texts.
RoundTripPlain ==
    (/\ gpc = "written" /\ docs[1] = docs[2]
     /\ \/ RuleFree(inputs[1]) /\ RuleFree(inputs[2])
        \/ HeadingFree(inputs[1]) /\ HeadingFree(inputs[2]))
    => Sections(inputs[1]) = Sections(inputs[2])

RoundTripPlainCase ==
    /\ gpc = "written" /\ docs[1] = docs[2]
    /\ inputs[1].analysis = <<CritiqueHeading, "x">>
    /\ inputs[1].critique = <<"x">>
    /\ RuleFree(inputs[1]) /\ RuleFree(inputs[2])
    /\ inputs[1].topic = <<"UBI", "---">>

----------------------------------------------------------------------------
(* Properties of two concurrent runs, checked under SpecConc *)

\* the session that stage k of run r uses
SessionOf(r, k) == store[ServiceOf(r)][SessionId(k)]

\* C11: whatever the interleaving of two runs, the session that a stage of
\* a run uses holds only events of that stage of that run: no event
\* written by the other run, none of another stage.
C11_SessionIsolation ==
    \A r \in Runs : \A k \in 1..cstage[r] :
        SessionId(k) \in DOMAIN store[ServiceOf(r)] =>
            \A i \in 1..Len(SessionOf(r, k)) :
                SessionOf(r, k)[i].run = r /\ SessionOf(r, k)[i].stage = k

C11_Witness ==
    /\ \A r \in Runs : cpc[r] = "events" /\ cstage[r] = Critic /\ cn[r] = 1
    /\ \A r \in Runs : Len(SessionOf(r, Critic)) = 2 /\ Len(SessionOf(r, Analyst)) = 2

----------------------------------------------------------------------------
(* Properties of the event loop, checked under SpecExtract *)

Consumed == SubSeq(xstream, 1, xseen)
Max(S) == CHOOSE m \in S : \A n \in S : n <= m
\* the texts of the text segments of a message, in order
Segments(parts) ==
    LET texts == SelectSeq(parts, LAMBDA p : p.kind = "text")
    IN  [i \in 1..Len(texts) |-> texts[i].text]
NonEmptySegments(parts) == SelectSeq(Segments(parts), LAMBDA t : t # << >>)
Finals(s) == {i \in 1..Len(s) : s[i].final}
FinalsWithParts(s) == {i \in 1..Len(s) : s[i].final /\ s[i].parts # << >>}

\* C22 (as claimed): the text is the plain concatenation of the text
\* segments of the final message (the last event marked final), and the
\* empty string if no event is final or the final message has no text.
C22_ConcatOfFinal ==
    xtext = IF Finals(Consumed) = {} THEN << >>
            ELSE Join(Segments(Consumed[Max(Finals(Consumed))].parts), << >>)

\* C22 (amended): the text is that of the last event that is marked final
\* and has at least one part: its non-empty text segments joined by "\n";
\* events not marked final and final events without parts contribute
\* nothing, non-text parts are dropped, and the text is the empty string if
\* there is no such event or it has no non-empty text segment.
C22_TextOfFinal ==
    xtext = IF FinalsWithParts(Consumed) = {} THEN << >>
            ELSE Join(NonEmptySegments(Consumed[Max(FinalsWithParts(Consumed))].parts), <<"\n">>)

C22_Witness ==
    /\ xseen = 2 /\ ~xstream[1].final /\ xstream[1].parts = <<TextPart(<<"a">>)>>
    /\ xstream[2].final /\ xstream[2].parts = <<ThoughtPart, TextPart(<<"b">>)>>
    /\ xtext = <<"b">>

C22_WitnessJoined == xseen = 1 /\ xtext = <<"a", "\n", "b">>

----------------------------------------------------------------------------
(* Properties of fetch_policy_data, checked under LiveSpecRetry *)

\* C25: a call of fetch_policy_data ends; it makes at most 3 lookups and
\* sleeps at most twice; and it ends by returning a string or by raising,
\* never by leaving the loop and returning nothing.
C25_FetchTerminates ==
    /\ [](callee = "fetch_policy_data" => Len(history) <= 3 /\ Len(sleeps) <= 2)
    /\ []((callee = "fetch_policy_data" /\ rpc = "done") =>
            /\ result.kind \in {"returned", "raised"}
            /\ result.value # <<"None">>)
    /\ (callee = "fetch_policy_data") ~> (rpc = "done")

C25_Witness ==
    /\ callee = "fetch_policy_data" /\ rpc = "done"
    /\ Len(history) = 3 /\ Len(sleeps) = 2
    /\ result.kind = "returned" /\ Head(result.value) = "Error during search: "

----------------------------------------------------------------------------
(* Properties of the UI, checked under SpecUI *)

\* runs of the session whose .then() handler has run
Handled == IF upc = "ended" THEN Len(ended) - 1 ELSE Len(ended)

\* some report generated from topic t and the four texts of tuple snap
ReportOf(t, snap) ==
    { MdContent([topic |-> t, analysis |-> snap[1], critique |-> snap[2],
                 lobbyist |-> snap[3], summary |-> snap[4], timestamp |-> ts]) :
        ts \in Timestamps }

----------------------------------------------------------------------------
(* Properties of two runs in one process, checked under SpecShared *)

\* C21 (as claimed): every generation request of a run is made with the
\* key that run resolved, never with the key of the other run.
C21_OwnKey == \A c \in scalls : c.key = RunKey(c.run)

\* C24 (as claimed): while a run is inside a backoff sleep of the search
\* tool, the other run, unless it has returned, can take a step.
C24_CooperativeSleep ==
    \A r \in Runs : \A q \in Runs \ {r} :
        (spc[r] = "sleeping" /\ spc[q] # "returned") => ENABLED SharedStep(q)

====
